---- MODULE Spec2Model ----
(***************************************************************************)
(* A model of the MindMirror AI analysis gateway (server/server.js): the   *)
(* POST /api/analyze handler, the callGeminiAPI retry chain, the           *)
(* model-fallback loop and the normalisation of the remote reply; and of   *)
(* the page script of the client shell (unnamed/part_000).                 *)
(*                                                                         *)
(* Specifications: Spec (one request, every input drawn), FairSpec (one    *)
(* request, one input for each way the control flow goes, with the         *)
(* scheduling of the runtime), ConcurrentSpec (every request slot in use), *)
(* ShellSpec (the page alone).                                             *)
(*                                                                         *)
(* Record constructors list their fields in the order in which TLC keeps   *)
(* a record's fields (the order of the names' first occurrence here), so   *)
(* that putting a record in normal form never rewrites it: the workers     *)
(* share these values, and TLC's normalisation is done in place.           *)
(*                                                                         *)
(* Representation of JavaScript values.  A value is a record tagged by its *)
(* type in field t: undefined, null, bool, num, nan, str, arr, obj.  An    *)
(* object's payload is a record of its properties; a property that is      *)
(* absent reads as undefined.  A string's payload is a sequence, in one of *)
(* three granularities according to what the code does with the string:    *)
(*   - an error message is a sequence of words (includes('not found'));    *)
(*   - a retryDelay is a sequence of characters (parseInt);                *)
(*   - a text (the user's text, the candidate text) is a sequence of runs  *)
(*     [k, n, ...] of n characters of kind k (length, trim, substring,     *)
(*     the markdown fence, JSON.parse).                                    *)
(***************************************************************************)
EXTENDS Integers, Sequences, FiniteSets, TLC

\* ------------------------------------------------------------ bounds
\* Number of request slots of the model.
NumReqs == 2
\* Longest retryDelay string drawn for a 429 payload, in characters.
MaxDelayLen == 2
\* Most invocations of analyzeText suspended at their fetch at one time.
MaxInFlight == 2

\* ------------------------------------------------- program constants
maxRetries == 3
DefaultRetryDelay == 30
MaxTextLength == 10000
MAX_CHARS == 10000
SummaryChars == 200
FallbackSummaryChars == 500

\* ------------------------------------------------- JavaScript values
Undef == [t |-> "undefined"]
Null == [t |-> "null"]
NaN == [t |-> "nan"]
Bool(b) == [t |-> "bool", v |-> b]
Num(n) == [t |-> "num", v |-> n]
\* The three granularities of a string (field g keeps them apart).
Words(s) == [t |-> "str", v |-> s, g |-> "words"]
Chars(s) == [t |-> "str", v |-> s, g |-> "chars"]
Text(s) == [t |-> "str", v |-> s, g |-> "runs"]
Arr(a) == [t |-> "arr", v |-> a]
Obj(f) == [t |-> "obj", v |-> f]

\* The truth value JavaScript gives a value in a condition, in || and in !.
Truthy(x) ==
  CASE x.t = "undefined" -> FALSE
    [] x.t = "null" -> FALSE
    [] x.t = "nan" -> FALSE
    [] x.t = "bool" -> x.v
    [] x.t = "num" -> x.v # 0
    [] x.t = "str" -> Len(x.v) > 0
    [] OTHER -> TRUE

\* Reading x.k throws a TypeError when x is undefined or null.
Nullish(x) == x.t \in {"undefined", "null"}

\* x.k for a value x that is not nullish: a primitive or an array has none
\* of the properties the code reads (length and indices are read apart).
Get(x, k) == IF x.t = "obj" /\ k \in DOMAIN x.v THEN x.v[k] ELSE Undef

\* x[0]: the first element of an array, undefined otherwise.
First(x) == IF x.t = "arr" /\ Len(x.v) > 0 THEN x.v[1] ELSE Undef

\* a || b
OrElse(a, b) == IF Truthy(a) THEN a ELSE b

\* -------------------------------------------------- parseInt(s, 10)
DigitChars == <<"0", "1", "2", "3", "4", "5", "6", "7", "8", "9">>
IsDigit(c) == \E i \in 1..Len(DigitChars) : DigitChars[i] = c
DigitVal(c) == (CHOOSE i \in 1..Len(DigitChars) : DigitChars[i] = c) - 1

RECURSIVE NumChars(_)
\* String(n) of an integer n, as characters.
NumChars(n) ==
  IF n < 0 THEN <<"-">> \o NumChars(0 - n)
  ELSE IF n < 10 THEN <<DigitChars[n + 1]>>
  ELSE NumChars(n \div 10) \o <<DigitChars[(n % 10) + 1]>>

\* String(x) for the values a retryDelay is drawn from (a string of
\* characters, an integer, a boolean, an object), as characters.
ToChars(x) ==
  CASE x.t = "str" -> x.v
    [] x.t = "num" -> NumChars(x.v)
    [] x.t = "bool" -> IF x.v THEN <<"t", "r", "u", "e">>
                       ELSE <<"f", "a", "l", "s", "e">>
    [] OTHER -> <<"[", "o", "b", "j", "e", "c", "t", "]">>

RECURSIVE SkipSpace(_)
SkipSpace(s) == IF s # <<>> /\ Head(s) = " " THEN SkipSpace(Tail(s)) ELSE s

RECURSIVE DigitRun(_)
\* The longest prefix of s made of digits.
DigitRun(s) ==
  IF s # <<>> /\ IsDigit(Head(s)) THEN <<Head(s)>> \o DigitRun(Tail(s)) ELSE <<>>

RECURSIVE DigitsValue(_, _)
DigitsValue(s, acc) ==
  IF s = <<>> THEN acc ELSE DigitsValue(Tail(s), acc * 10 + DigitVal(Head(s)))

\* parseInt(x, 10): leading white space is skipped, one sign is read, then the
\* longest run of digits; what follows is ignored; no digit at all gives NaN.
parseInt(x) ==
  LET s == SkipSpace(ToChars(x))
      neg == s # <<>> /\ Head(s) = "-"
      body == IF s # <<>> /\ Head(s) \in {"-", "+"} THEN Tail(s) ELSE s
      ds == DigitRun(body)
  IN IF ds = <<>> THEN NaN
     ELSE Num(IF neg THEN 0 - DigitsValue(ds, 0) ELSE DigitsValue(ds, 0))

RECURSIVE FirstRetryDelay(_)
\* The loop of extractRetryDelay over error.details: the first detail whose
\* retryDelay is truthy decides; a null or undefined detail throws.
FirstRetryDelay(details) ==
  IF details = <<>> THEN [v |-> Undef, found |-> FALSE, threw |-> FALSE]
  ELSE IF Nullish(Head(details)) THEN [v |-> Undef, found |-> FALSE, threw |-> TRUE]
  ELSE IF Truthy(Get(Head(details), "retryDelay"))
       THEN [v |-> parseInt(Get(Head(details), "retryDelay")), found |-> TRUE,
             threw |-> FALSE]
  ELSE FirstRetryDelay(Tail(details))

extractRetryDelay(errorResponse) ==
  IF Nullish(errorResponse) THEN Num(DefaultRetryDelay)
  ELSE LET err == Get(errorResponse, "error")
           details == IF Nullish(err) THEN Undef ELSE Get(err, "details")
       IN IF Truthy(details) /\ details.t = "arr"
          THEN LET d == FirstRetryDelay(details.v)
               IN IF d.found THEN d.v ELSE Num(DefaultRetryDelay)
          ELSE Num(DefaultRetryDelay)

\* ------------------------------------------------------------ texts
\* A text is a sequence of runs.  Kinds of run: "ws" (n white-space
\* characters), "chars" (n characters that are neither white space, nor a
\* fence, nor JSON), "json" (the n characters of one serialised JSON document
\* doc), "fence" (a markdown fence: ``` or ```json, with its line break when
\* nl), "cut" (the first n characters of a json or fence run).
Ws(n) == [n |-> n, k |-> "ws"]
Plain(n) == [n |-> n, k |-> "chars"]
Json(n, doc) == [n |-> n, k |-> "json", doc |-> doc]
Fence(lang, nl) ==
  [n |-> (IF lang THEN 7 ELSE 3) + (IF nl THEN 1 ELSE 0), k |-> "fence",
   lang |-> lang, nl |-> nl]

RECURSIVE TextLength(_)
\* s.length
TextLength(s) == IF s = <<>> THEN 0 ELSE Head(s).n + TextLength(Tail(s))

RECURSIVE TrimStart(_)
TrimStart(s) == IF s # <<>> /\ Head(s).k = "ws" THEN TrimStart(Tail(s)) ELSE s

RECURSIVE TrimEnd(_)
\* White space at the end goes, and so does the line break of a final fence.
TrimEnd(s) ==
  IF s = <<>> THEN s
  ELSE LET last == s[Len(s)]
           front == SubSeq(s, 1, Len(s) - 1)
       IN IF last.k = "ws" THEN TrimEnd(front)
          ELSE IF last.k = "fence" /\ last.nl
               THEN front \o <<Fence(last.lang, FALSE)>>
          ELSE s

\* s.trim()
trim(s) == TrimEnd(TrimStart(s))

\* s.substring(0, m): a run cut in the middle keeps its kind when it is white
\* space or plain characters, and is no longer a document or a fence otherwise.
CutRun(r, m) ==
  IF r.k \in {"ws", "chars"} THEN [r EXCEPT !.n = m]
  ELSE [n |-> m, k |-> "cut", of |-> r]

RECURSIVE substring(_, _)
substring(s, m) ==
  IF s = <<>> \/ m <= 0 THEN <<>>
  ELSE IF Head(s).n <= m THEN <<Head(s)>> \o substring(Tail(s), m - Head(s).n)
  ELSE <<CutRun(Head(s), m)>>

RECURSIVE StripAllFences(_)
\* .replace(/```json\n?/g, '').replace(/```\n?/g, ''): every fence goes.
StripAllFences(s) ==
  IF s = <<>> THEN s
  ELSE IF Head(s).k = "fence" THEN StripAllFences(Tail(s))
  ELSE <<Head(s)>> \o StripAllFences(Tail(s))

RECURSIVE StripPlainFences(_)
\* .replace(/```\n?/g, '') alone: of a ```json fence the word json (and its
\* line break) stays behind.
StripPlainFences(s) ==
  IF s = <<>> THEN s
  ELSE IF Head(s).k = "fence" /\ ~Head(s).lang THEN StripPlainFences(Tail(s))
  ELSE IF Head(s).k = "fence"
       THEN <<Plain(4)>> \o (IF Head(s).nl THEN <<Ws(1)>> ELSE <<>>)
            \o StripPlainFences(Tail(s))
  ELSE <<Head(s)>> \o StripPlainFences(Tail(s))

\* Lines 207-212: the text handed to JSON.parse.
jsonText(textResponse) ==
  LET t0 == trim(textResponse)
  IN IF t0 # <<>> /\ t0[1].k = "fence" /\ t0[1].lang THEN trim(StripAllFences(t0))
     ELSE IF t0 # <<>> /\ t0[1].k = "fence" THEN trim(StripPlainFences(t0))
     ELSE t0

\* JSON.parse of a text: white space around the document is allowed, anything
\* else beside the one document is a SyntaxError.
JSONparse(s) ==
  LET rest == SelectSeq(s, LAMBDA r : r.k # "ws")
  IN IF Len(rest) = 1 /\ rest[1].k = "json"
     THEN [ok |-> TRUE, val |-> rest[1].doc]
     ELSE [ok |-> FALSE, val |-> Undef]

\* Normalized without the default of summary.
Normalized_NoSummaryDefault(analysis, textResponse) ==
  Obj([sentiment |-> OrElse(Get(analysis, "sentiment"), Words(<<"neutral">>)),
       themes |-> IF Get(analysis, "themes").t = "arr"
                  THEN Get(analysis, "themes") ELSE Arr(<<>>),
       tone |-> OrElse(Get(analysis, "tone"), Words(<<"Not", "specified">>)),
       summary |-> Get(analysis, "summary")])

\* Normalized reading a misspelt property for the themes.
Normalized_ThemesLost(analysis, textResponse) ==
  Obj([sentiment |-> OrElse(Get(analysis, "sentiment"), Words(<<"neutral">>)),
       themes |-> IF Get(analysis, "theme").t = "arr"
                  THEN Get(analysis, "theme") ELSE Arr(<<>>),
       tone |-> OrElse(Get(analysis, "tone"), Words(<<"Not", "specified">>)),
       summary |-> OrElse(Get(analysis, "summary"),
                          Text(substring(textResponse, SummaryChars)))])

\* Normalized with the tone of the fallback as the default of tone.
Normalized_ToneMixed(analysis, textResponse) ==
  Obj([sentiment |-> OrElse(Get(analysis, "sentiment"), Words(<<"neutral">>)),
       themes |-> IF Get(analysis, "themes").t = "arr"
                  THEN Get(analysis, "themes") ELSE Arr(<<>>),
       tone |-> OrElse(Get(analysis, "tone"), Words(<<"mixed">>)),
       summary |-> OrElse(Get(analysis, "summary"),
                          Text(substring(textResponse, SummaryChars)))])

\* Lines 217-222: the object resolved when JSON.parse succeeds (analysis is
\* not null here: reading a property of null throws into the catch below).
Normalized(analysis, textResponse) ==
  Obj([sentiment |-> OrElse(Get(analysis, "sentiment"), Words(<<"neutral">>)),
       themes |-> IF Get(analysis, "themes").t = "arr"
                  THEN Get(analysis, "themes") ELSE Arr(<<>>),
       tone |-> OrElse(Get(analysis, "tone"), Words(<<"Not", "specified">>)),
       summary |-> OrElse(Get(analysis, "summary"),
                          Text(substring(textResponse, SummaryChars)))])

\* Fallback with the summary cut as the success path cuts it.
Fallback_ShortSummary(textResponse) ==
  Obj([sentiment |-> Words(<<"neutral">>),
       themes |-> Arr(<<>>),
       tone |-> Words(<<"mixed">>),
       summary |-> Text(substring(textResponse, SummaryChars))])

\* Lines 226-231: the object resolved from the catch of the inner try.
Fallback(textResponse) ==
  Obj([sentiment |-> Words(<<"neutral">>),
       themes |-> Arr(<<>>),
       tone |-> Words(<<"mixed">>),
       summary |-> Text(substring(textResponse, FallbackSummaryChars))])

\* Lines 206-232: from the candidate text to the resolved AnalysisResult.
ParseAnalysis(textResponse) ==
  LET p == JSONparse(jsonText(textResponse))
  IN IF p.ok /\ ~Nullish(p.val) THEN Normalized(p.val, textResponse)
     ELSE Fallback(textResponse)

\* ------------------------------------------------------ error messages
\* String(x) of a value used as an Error's message, as words.
ToWords(x) ==
  CASE x.t = "str" -> x.v
    [] x.t = "num" -> <<ToString(x.v)>>
    [] x.t = "bool" -> IF x.v THEN <<"true">> ELSE <<"false">>
    [] OTHER -> <<"[object", "Object]">>

\* message.includes('not found')
IncludesNotFound(w) ==
  \E i \in 1..(Len(w) - 1) : w[i] = "not" /\ w[i + 1] = "found"

\* message.includes('is not found')
IncludesIsNotFound(w) ==
  \E i \in 1..(Len(w) - 2) : w[i] = "is" /\ w[i + 1] = "not" /\ w[i + 2] = "found"

\* IsModelNotFound that takes every failure with a message for 'not found'.
IsModelNotFound_AnyMessage(message) == Len(message) > 0

\* Line 284: the test that sends the handler to the alternative models.
IsModelNotFound(message) ==
  Len(message) > 0 /\ (IncludesNotFound(message) \/ IncludesIsNotFound(message))

ParseFailed(detail) == <<"Failed", "to", "parse", "API", "response:">> \o detail
StatusMessage(statusCode) ==
  <<"API", "request", "failed", "with", "status", ToString(statusCode)>>
AllModelsFailedMessage ==
  <<"All", "models", "failed.", "Check", "available", "models", "at",
    "/api/models", "or", "in", "server", "logs.">>

Reject(message, site, statusCode) ==
  [message |-> message, statusCode |-> statusCode, site |-> site, kind |-> "reject"]
Resolve(value) == [kind |-> "resolve", value |-> value]
Retry(seconds) == [kind |-> "retry", seconds |-> seconds]

\* Lines 183-185: the rejection of a non-200 response that is not retried.
\* response is not null here.
RemoteError(statusCode, response) ==
  LET err == Get(response, "error")
      message == IF Nullish(err) THEN Undef ELSE Get(err, "message")
      code == IF Nullish(err) THEN Undef ELSE Get(err, "code")
  IN Reject(ToWords(OrElse(OrElse(message, code), Words(StatusMessage(statusCode)))),
            "L184", statusCode)

\* Lines 189-238: a 200 response.  response is not null here.
Success(statusCode, response) ==
  LET candidates == Get(response, "candidates")
      candidate == First(candidates)
      content == Get(candidate, "content")
      parts == Get(content, "parts")
      part == First(parts)
      textResponse == Get(part, "text")
  IN IF ~(Truthy(candidates) /\ Truthy(candidate))
     THEN Reject(<<"Invalid", "response", "format:", "missing", "candidates">>, "L237",
                 statusCode)
     ELSE IF ~(Truthy(content) /\ Truthy(parts) /\ Truthy(part))
     THEN Reject(<<"Invalid", "response", "format:", "missing", "content.parts">>,
                 "L234", statusCode)
     ELSE IF ~Truthy(textResponse)
     THEN Reject(<<"Empty", "response", "from", "Gemini", "API">>, "L202", statusCode)
     ELSE IF textResponse.t # "str"
     THEN Reject(ParseFailed(<<"textResponse.trim", "is", "not", "a", "function">>),
                 "L242", statusCode)
     ELSE Resolve(ParseAnalysis(textResponse.v))

\* OnResponseEnd with the retry test off by one (retryCount <= maxRetries).
OnResponseEnd_RetriesOnceMore(statusCode, data, count) ==
  IF ~data.json
  THEN Reject(ParseFailed(<<"Unexpected", "token">>), "L242", statusCode)
  ELSE IF statusCode = 429 /\ count <= maxRetries
  THEN Retry(extractRetryDelay(data.val))
  ELSE IF Nullish(data.val)
  THEN Reject(ParseFailed(<<"Cannot", "read", "properties", "of", "null">>), "L242",
              statusCode)
  ELSE IF statusCode # 200 THEN RemoteError(statusCode, data.val)
  ELSE Success(statusCode, data.val)

\* Lines 157-243: the handler of the remote response's end, for the response
\* (statusCode, data) received by the call with this retryCount.  data is
\* [json, val]: whether JSON.parse(data) succeeds, and its value.
OnResponseEnd(statusCode, data, count) ==
  IF ~data.json
  THEN Reject(ParseFailed(<<"Unexpected", "token">>), "L242", statusCode)
  ELSE IF statusCode = 429 /\ count < maxRetries
  THEN Retry(extractRetryDelay(data.val))
  ELSE IF Nullish(data.val)
  THEN Reject(ParseFailed(<<"Cannot", "read", "properties", "of", "null">>), "L242",
              statusCode)
  ELSE IF statusCode # 200 THEN RemoteError(statusCode, data.val)
  ELSE Success(statusCode, data.val)

\* Line 74: the milliseconds setTimeout waits for delay(seconds); a delay that
\* is NaN or below 1 ms is run as 1 ms.
TimeoutMs(seconds) ==
  IF seconds.t = "num" /\ seconds.v * 1000 >= 1 THEN seconds.v * 1000 ELSE 1

\* ------------------------------------------------------------- inputs
\* The models the process can be configured with (GEMINI_MODEL): the default
\* and one that is also in the list of alternatives.
ConfiguredModels == {"gemma-3-27b-it", "gemini-1.5-flash"}

alternativeModels == <<"gemini-1.5-flash-latest", "gemini-1.5-flash", "gemini-1.5-pro">>

\* The text property of the request bodies drawn: absent, not a string, empty,
\* white space only, and texts around the limit.
RequestTexts ==
  {Undef, Num(5), Text(<<>>), Text(<<Ws(3)>>), Text(<<Ws(MaxTextLength)>>),
   Text(<<Ws(MaxTextLength + 1)>>), Text(<<Plain(1)>>),
   Text(<<Ws(1), Plain(MaxTextLength - 1)>>), Text(<<Plain(MaxTextLength + 1)>>),
   Text(<<Plain(MaxTextLength - 1), Ws(2)>>)}

\* Messages of the remote provider.
NotFoundMessage == Words(<<"models/x", "is", "not", "found", "for", "API", "version">>)
QuotaMessage == Words(<<"Resource", "has", "been", "exhausted">>)
RemoteMessages == {Undef, Words(<<>>), NotFoundMessage, QuotaMessage}
RemoteCodes == {Undef, Num(503)}

\* retryDelay values: every string of 1..MaxDelayLen characters over this
\* alphabet, and some values that are not strings.
DelayAlphabet == {"1", "7", "s", " ", "-"}
RECURSIVE StringsUpTo(_)
StringsUpTo(n) ==
  IF n = 0 THEN {<<>>}
  ELSE LET shorter == StringsUpTo(n - 1)
       IN shorter \cup {Append(w, c) : w \in shorter, c \in DelayAlphabet}
DelayValues ==
  {Chars(w) : w \in StringsUpTo(MaxDelayLen)}
    \cup {Num(0), Num(5), Bool(TRUE), Obj([seconds |-> Num(5)])}

DetailLists ==
  {<<>>, <<Null>>, <<Obj([reason |-> Words(<<"RATE_LIMIT">>)])>>}
    \cup {<<Obj([retryDelay |-> d])>> : d \in DelayValues}
    \cup {<<Obj([reason |-> Words(<<"RATE_LIMIT">>)]), Obj([retryDelay |-> Chars(<<"7", "s">>)])>>,
          <<Obj([retryDelay |-> Chars(<<"s">>)]), Obj([retryDelay |-> Chars(<<"7", "s">>)])>>}

ErrorBodies ==
  {Obj([error |-> Obj([message |-> m, code |-> c])]) :
     m \in RemoteMessages, c \in RemoteCodes}
    \cup {Obj([error |-> Obj([details |-> Arr(d), message |-> QuotaMessage])]) :
            d \in DetailLists}
    \cup {Obj([error |-> Obj([details |-> Obj([retryDelay |-> Chars(<<"7", "s">>)]),
                              message |-> QuotaMessage])]),
          Obj([error |-> Words(<<"quota">>)])}

\* The JSON documents a candidate text can hold: every combination of the four
\* fields absent, empty or filled, and documents that are not such objects.
Sentiments == {Undef, Words(<<>>), Words(<<"positive">>)}
ThemeLists == {Undef, Arr(<<>>), Arr(<<Words(<<"work">>)>>), Words(<<"work">>)}
Tones == {Undef, Words(<<>>), Words(<<"upbeat">>)}
Summaries == {Undef, Words(<<>>), Words(<<"Expresses", "enjoyment", "of", "work.">>)}
AnalysisDocs ==
  {Obj([sentiment |-> a, themes |-> b, tone |-> c, summary |-> d]) :
     a \in Sentiments, b \in ThemeLists, c \in Tones, d \in Summaries}
PromptDoc ==
  Obj([themes |-> Arr(<<Words(<<"work">>)>>),
       tone |-> Words(<<"upbeat">>),
       summary |-> Words(<<"Expresses", "enjoyment", "of", "work.">>),
       mood |-> Obj([label |-> Words(<<"Skoree", "polozhitelnoe">>),
                      confidence |-> Words(<<"srednyaya">>)]),
       disclaimer |-> Words(<<"Not", "a", "diagnosis.">>)])
OtherDocs ==
  {Null, Num(5), Arr(<<>>), PromptDoc,
   Obj([sentiment |-> Num(0), themes |-> Arr(<<>>), tone |-> Bool(FALSE), summary |-> Null])}
FullDoc ==
  Obj([sentiment |-> Words(<<"positive">>), themes |-> Arr(<<Words(<<"work">>)>>),
       tone |-> Words(<<"upbeat">>),
       summary |-> Words(<<"Expresses", "enjoyment", "of", "work.">>)])
BareDoc == Obj([sentiment |-> Undef, themes |-> Undef, tone |-> Undef, summary |-> Undef])

\* The length in characters a drawn document is serialised to.
DocChars(doc) == IF doc = BareDoc THEN 2 ELSE IF doc.t = "obj" THEN 120 ELSE 4

CandidateTexts ==
  {<<Json(DocChars(d), d)>> : d \in AnalysisDocs \cup OtherDocs}
    \cup {<<Fence(TRUE, TRUE), Json(120, FullDoc), Ws(1), Fence(FALSE, FALSE)>>,
          <<Fence(FALSE, TRUE), Json(120, FullDoc), Ws(1), Fence(FALSE, TRUE)>>,
          <<Fence(FALSE, TRUE), Json(2, BareDoc), Ws(1), Fence(TRUE, TRUE)>>,
          <<Ws(2), Json(300, BareDoc), Ws(1)>>,
          <<Ws(2), Fence(TRUE, TRUE), Json(300, BareDoc), Ws(1)>>,
          <<Plain(20), Ws(1), Json(120, FullDoc)>>,
          <<Json(120, FullDoc), Json(120, FullDoc)>>,
          <<Plain(600)>>, <<Plain(499), Ws(2), Plain(3)>>, <<Ws(3)>>}

Candidate(text) == Obj([content |-> Obj([parts |-> Arr(<<Obj([text |-> text])>>)]),
                        finishReason |-> Words(<<"STOP">>)])
SuccessBodies ==
  {Obj([candidates |-> Arr(<<Candidate(Text(t))>>)]) : t \in CandidateTexts}
    \cup {Obj([candidates |-> Arr(<<Candidate(x)>>)]) : x \in {Undef, Text(<<>>), Num(5)}}
    \cup {Obj([candidates |-> Arr(<<>>)]),
          Obj([candidates |-> Arr(<<Obj([finishReason |-> Words(<<"SAFETY">>)])>>)]),
          Obj([candidates |-> Arr(<<Obj([content |-> Obj([parts |-> Arr(<<>>)])])>>)])}
OddBodies == {Null, Obj(<<>>), Num(5)}

JsonData(val) == [val |-> val, json |-> TRUE]
\* A body that is not JSON (an HTML error page, an empty body).
NotJson == [val |-> Undef, json |-> FALSE]

\* The remote responses drawn, as (statusCode, data).
Responses ==
  {<<200, JsonData(b)>> : b \in SuccessBodies}
    \cup {<<c, JsonData(b)>> : c \in {429, 404}, b \in ErrorBodies}
    \cup {<<c, JsonData(b)>> : c \in {200, 429, 404}, b \in OddBodies}
    \cup {<<c, NotJson>> : c \in {200, 429, 404}}
    \cup {<<200, JsonData(Obj([error |-> Obj([message |-> QuotaMessage])]))>>,
          <<429, JsonData(Obj([candidates |-> Arr(<<Candidate(Text(<<Json(120, FullDoc)>>))>>)]))>>}

\* The messages of the transport's error event.
TransportErrors == {<<"connect", "ECONNREFUSED">>, <<"socket", "hang", "up">>}

\* -------------------------------------------------------------- state
Reqs == 1..NumReqs

VARIABLES
  GEMINI_MODEL,  \* the configured primary model (line 14)
  pc,            \* per request: "absent", "new", "await" (a remote request is
                 \* in flight), "backoff" (in delay()), "done" (answered)
  text,          \* per request: req.body.text
  altIdx,        \* per request: 0 during the primary call, else the index in
                 \* alternativeModels of the model being tried
  modelName,     \* per request: modelName of the running callGeminiAPI chain
  retryCount,    \* per request: retryCount of the running call
  sent,          \* per request: outbound requests issued by the running chain
  backoffs,      \* per request: delay() suspensions of the running chain
  calls,         \* per request: the chains started, in order, as
                 \* [model, outcome]
  lastRes,       \* per request: what the outbound request of the running
                 \* call ended with (none while it is in flight)
  timer,         \* per request: the seconds handed to delay() while in backoff
  error,         \* per request: the last rejection of a chain, as
                 \* [message, site, statusCode]
  reply,         \* per request: the HTTP response sent to the client
  \* The page of the client shell (unnamed/part_000):
  textInputValue,      \* textInput.value
  analyzeBtnDisabled,  \* analyzeBtn.disabled
  loadingSection,      \* "hidden" or "shown": the class hidden of the section
  errorSection,
  resultSection,
  errorMessage,        \* errorMessage.textContent
  inFlight             \* the invocations of analyzeText suspended at the fetch

shell == <<textInputValue, analyzeBtnDisabled, loadingSection, errorSection,
           resultSection, errorMessage, inFlight>>

gateway == <<GEMINI_MODEL, pc, text, altIdx, modelName, retryCount, sent, backoffs,
             calls, lastRes, timer, error, reply>>

vars == <<GEMINI_MODEL, pc, text, altIdx, modelName, retryCount, sent, backoffs,
          calls, lastRes, timer, error, reply, shell>>

NoRes == [kind |-> "none"]
NoError == [message |-> <<>>, statusCode |-> 0, site |-> "none"]
NoReply == [status |-> 0]

\* Lines 265-268 and 272-275: the two 400 responses.
BadRequest(message) == [error |-> Words(message), status |-> 400, success |-> FALSE]
\* Lines 310-313: res.json of a success.
Ok(analysis) == [analysis |-> analysis, status |-> 200, success |-> TRUE]
\* ServerError without the status(500): the failure goes out as a 200.
ServerError_Status200(message) ==
  [error |-> OrElse(Words(message),
                    Words(<<"An", "error", "occurred", "while", "analyzing", "the", "text.">>)),
   status |-> 200, success |-> FALSE]

\* Lines 317-320: the 500 response.
ServerError(message) ==
  [error |-> OrElse(Words(message),
                    Words(<<"An", "error", "occurred", "while", "analyzing", "the", "text.">>)),
   status |-> 500, success |-> FALSE]

\* InvalidText without the trim: white space counts as text.
InvalidText_NoTrim(t) ==
  ~Truthy(t) \/ t.t # "str" \/ TextLength(t.v) = 0

\* Line 264: the first validation test.
InvalidText(t) ==
  ~Truthy(t) \/ t.t # "str" \/ TextLength(trim(t.v)) = 0
\* TooLong with the limit off by one (>=).
TooLong_OffByOne(t) == TextLength(t.v) >= MaxTextLength

\* Line 271: the second.
TooLong(t) == TextLength(t.v) > MaxTextLength

\* NextAlt without the test that skips the primary model.
NextAlt_NoSkip(i) == IF i < Len(alternativeModels) THEN i + 1 ELSE 0

\* Lines 288-289: the next alternative model after index i that is not the
\* primary model; 0 when the list is exhausted.
NextAlt(i) ==
  LET later == {j \in (i + 1)..Len(alternativeModels) : alternativeModels[j] # GEMINI_MODEL}
  IN IF later = {} THEN 0 ELSE CHOOSE j \in later : \A k \in later : j <= k

\* TriesAlternatives that goes on to the alternatives after any failure.
TriesAlternatives_Always(i, message) == TRUE

\* Line 284 and 304-305: whether a rejection of the call with index i sends the
\* handler on to the alternatives (a failed alternative always does, 295-297).
TriesAlternatives(i, message) == i > 0 \/ IsModelNotFound(message)

\* FailureReply that answers with the last failure instead of "All models failed".
FailureReply_LastError(i, message) == ServerError(message)

\* Lines 301-305 and 315-320: the answer to a request whose last call, of
\* index i, was rejected with this message and that has no model left to try.
FailureReply(i, message) ==
  IF TriesAlternatives(i, message) THEN ServerError(AllModelsFailedMessage)
  ELSE ServerError(message)

\* StartCall with retryCount as one variable of the module, shared by every
\* call in progress.
StartCall_SharedRetryCount(r, i, model) ==
  /\ pc' = [pc EXCEPT ![r] = "await"]
  /\ altIdx' = [altIdx EXCEPT ![r] = i]
  /\ modelName' = [modelName EXCEPT ![r] = model]
  /\ retryCount' = [q \in Reqs |-> 0]
  /\ sent' = [sent EXCEPT ![r] = 1]
  /\ backoffs' = [backoffs EXCEPT ![r] = 0]
  /\ lastRes' = [lastRes EXCEPT ![r] = NoRes]

\* callGeminiAPI(text.trim(), model) with retryCount 0 (lines 94, 253-254).
StartCall(r, i, model) ==
  /\ pc' = [pc EXCEPT ![r] = "await"]
  /\ altIdx' = [altIdx EXCEPT ![r] = i]
  /\ modelName' = [modelName EXCEPT ![r] = model]
  /\ retryCount' = [retryCount EXCEPT ![r] = 0]
  /\ sent' = [sent EXCEPT ![r] = 1]
  /\ backoffs' = [backoffs EXCEPT ![r] = 0]
  /\ lastRes' = [lastRes EXCEPT ![r] = NoRes]

Outcome(log, o) == [log EXCEPT ![Len(log)].outcome = o]

\* Lines 280-321: what the handler does when the running chain settles.
Settle(r, o, res) ==
  IF o.kind = "resolve"
  THEN /\ pc' = [pc EXCEPT ![r] = "done"]
       /\ lastRes' = [lastRes EXCEPT ![r] = res]
       /\ calls' = [calls EXCEPT ![r] = Outcome(@, "resolved")]
       /\ reply' = [reply EXCEPT ![r] = Ok(o.value)]
       /\ UNCHANGED <<altIdx, modelName, retryCount, sent, backoffs, error>>
  ELSE IF TriesAlternatives(altIdx[r], o.message) /\ NextAlt(altIdx[r]) # 0
  THEN /\ StartCall(r, NextAlt(altIdx[r]), alternativeModels[NextAlt(altIdx[r])])
       /\ calls' = [calls EXCEPT ![r] =
            Append(Outcome(@, "rejected"),
                   [model |-> alternativeModels[NextAlt(altIdx[r])], outcome |-> "pending"])]
       /\ error' = [error EXCEPT ![r] = [message |-> o.message, statusCode |-> o.statusCode, site |-> o.site]]
       /\ UNCHANGED reply
  ELSE /\ pc' = [pc EXCEPT ![r] = "done"]
       /\ lastRes' = [lastRes EXCEPT ![r] = res]
       /\ calls' = [calls EXCEPT ![r] = Outcome(@, "rejected")]
       /\ error' = [error EXCEPT ![r] = [message |-> o.message, statusCode |-> o.statusCode, site |-> o.site]]
       /\ reply' = [reply EXCEPT ![r] = FailureReply(altIdx[r], o.message)]
       /\ UNCHANGED <<altIdx, modelName, retryCount, sent, backoffs>>

\* Lines 259-281: POST /api/analyze arrives with the text t; validation,
\* then the primary call.
AnalyzeText(r, t) ==
  /\ pc[r] = "new"
  /\ text' = [text EXCEPT ![r] = t]
  /\ IF InvalidText(t)
     THEN /\ reply' = [reply EXCEPT ![r] =
               BadRequest(<<"Please", "provide", "valid", "text", "to", "analyze">>)]
          /\ pc' = [pc EXCEPT ![r] = "done"]
          /\ UNCHANGED <<altIdx, modelName, retryCount, sent, backoffs, calls,
                         lastRes>>
     ELSE IF TooLong(t)
     THEN /\ reply' = [reply EXCEPT ![r] =
               BadRequest(<<"Text", "is", "too", "long.">>)]
          /\ pc' = [pc EXCEPT ![r] = "done"]
          /\ UNCHANGED <<altIdx, modelName, retryCount, sent, backoffs, calls,
                         lastRes>>
     ELSE /\ StartCall(r, 0, GEMINI_MODEL)
          /\ calls' = [calls EXCEPT ![r] =
               <<[model |-> GEMINI_MODEL, outcome |-> "pending"]>>]
          /\ UNCHANGED reply
  /\ UNCHANGED <<GEMINI_MODEL, timer, error, shell>>

Analyze(r) == \E t \in RequestTexts : AnalyzeText(r, t)

\* Lines 150-244: the remote response res of the request in flight has ended.
ResponseEndWith(r, res) ==
  /\ pc[r] = "await"
  /\ LET o == OnResponseEnd(res[1], res[2], retryCount[r])
         got == [statusCode |-> res[1], kind |-> "response", data |-> res[2]]
     IN IF o.kind = "retry"
           THEN /\ pc' = [pc EXCEPT ![r] = "backoff"]
                /\ lastRes' = [lastRes EXCEPT ![r] = got]
                /\ timer' = [timer EXCEPT ![r] = o.seconds]
                /\ backoffs' = [backoffs EXCEPT ![r] = @ + 1]
                /\ UNCHANGED <<altIdx, modelName, retryCount, sent, calls, error, reply>>
           ELSE /\ Settle(r, o, got)
                /\ UNCHANGED timer
  /\ UNCHANGED <<GEMINI_MODEL, text, shell>>

ResponseEnd(r) == \E res \in Responses : ResponseEndWith(r, res)

\* Lines 247-250: the transport reports the error m for the request in flight.
RequestErrorWith(r, m) ==
  /\ pc[r] = "await"
  /\ Settle(r, Reject(<<"Request", "failed:">> \o m, "L249", 0),
            [message |-> m, kind |-> "error"])
  /\ UNCHANGED <<GEMINI_MODEL, text, timer, shell>>

RequestError(r) == \E m \in TransportErrors : RequestErrorWith(r, m)

\* BackoffElapsed that calls again with the same retryCount.
BackoffElapsed_SameRetryCount(r) ==
  /\ pc[r] = "backoff"
  /\ pc' = [pc EXCEPT ![r] = "await"]
  /\ sent' = [sent EXCEPT ![r] = @ + 1]
  /\ timer' = [timer EXCEPT ![r] = Undef]
  /\ lastRes' = [lastRes EXCEPT ![r] = NoRes]
  /\ UNCHANGED <<GEMINI_MODEL, text, altIdx, modelName, retryCount, backoffs, calls, error,
                 reply, shell>>

\* Lines 174-178: delay() is over; the call re-invokes itself with
\* retryCount + 1, which issues the next outbound request.
BackoffElapsed(r) ==
  /\ pc[r] = "backoff"
  /\ pc' = [pc EXCEPT ![r] = "await"]
  /\ retryCount' = [retryCount EXCEPT ![r] = @ + 1]
  /\ sent' = [sent EXCEPT ![r] = @ + 1]
  /\ timer' = [timer EXCEPT ![r] = Undef]
  /\ lastRes' = [lastRes EXCEPT ![r] = NoRes]
  /\ UNCHANGED <<GEMINI_MODEL, text, altIdx, modelName, backoffs, calls, error, reply,
                 shell>>

\* The page as the browser has loaded it.  The script shows and hides the
\* three sections by their class hidden and never looks at it: they start
\* hidden; the text is empty, and the button is enabled or disabled as the
\* markup has it.
ShellInit ==
  /\ textInputValue = Text(<<>>)
  /\ analyzeBtnDisabled \in BOOLEAN
  /\ loadingSection = "hidden"
  /\ errorSection = "hidden"
  /\ resultSection = "hidden"
  /\ errorMessage = Words(<<>>)
  /\ inFlight = 0

\* The process has started with some configuration; one request has arrived
\* (the page that sent it is left at rest).
Init ==
  /\ GEMINI_MODEL \in ConfiguredModels
  /\ pc = [r \in Reqs |-> IF r = 1 THEN "new" ELSE "absent"]
  /\ text = [r \in Reqs |-> Undef]
  /\ altIdx = [r \in Reqs |-> 0]
  /\ modelName = [r \in Reqs |-> ""]
  /\ retryCount = [r \in Reqs |-> 0]
  /\ sent = [r \in Reqs |-> 0]
  /\ backoffs = [r \in Reqs |-> 0]
  /\ calls = [r \in Reqs |-> <<>>]
  /\ lastRes = [r \in Reqs |-> NoRes]
  /\ timer = [r \in Reqs |-> Undef]
  /\ error = [r \in Reqs |-> NoError]
  /\ reply = [r \in Reqs |-> NoReply]
  /\ ShellInit /\ ~analyzeBtnDisabled

Next ==
  \E r \in Reqs :
    \/ Analyze(r)
    \/ ResponseEnd(r)
    \/ RequestError(r)
    \/ BackoffElapsed(r)

Spec == Init /\ [][Next]_vars

\* ------------------------------------------- the chain's control flow
\* One input for each way the handler and a chain can go on: a text that is
\* refused and one that is accepted; a response that resolves the call, one
\* of an invalid shape, a 429 with a retryDelay, a 429 that says 'not found'
\* (which, the retries exhausted, sends the handler to the alternatives), a
\* 429 that is not JSON, a 404 that says 'not found' and one that does not.
CoreTexts == {Text(<<Ws(3)>>), Text(<<Plain(1)>>)}
CoreResponses ==
  {<<200, JsonData(Obj([candidates |-> Arr(<<Candidate(Text(<<Json(120, FullDoc)>>))>>)]))>>,
   <<200, JsonData(Obj([candidates |-> Arr(<<>>)]))>>,
   <<429, JsonData(Obj([error |-> Obj([details |-> Arr(<<Obj([retryDelay |-> Chars(<<"7", "s">>)])>>),
                                       message |-> QuotaMessage])]))>>,
   <<429, JsonData(Obj([error |-> Obj([message |-> NotFoundMessage, code |-> Undef])]))>>,
   <<429, NotJson>>,
   <<404, JsonData(Obj([error |-> Obj([message |-> NotFoundMessage, code |-> Undef])]))>>,
   <<404, JsonData(Obj([error |-> Obj([message |-> QuotaMessage, code |-> Undef])]))>>}
CoreErrors == {<<"socket", "hang", "up">>}

CoreAnalyze(r) == \E t \in CoreTexts : AnalyzeText(r, t)
CoreResponseEnd(r) == \E res \in CoreResponses : ResponseEndWith(r, res)
CoreRequestError(r) == \E m \in CoreErrors : RequestErrorWith(r, m)

CoreNext ==
  \E r \in Reqs :
    \/ CoreAnalyze(r)
    \/ CoreResponseEnd(r)
    \/ CoreRequestError(r)
    \/ BackoffElapsed(r)

\* The scheduling the runtime gives the handler and a chain: the handler of a
\* request that has arrived runs (line 259); the outbound request in flight
\* ends with the response's 'end' event or with the request's 'error' event
\* (lines 157, 247); the timer of delay() fires (line 74: setTimeout runs
\* every delay, one that is NaN, negative or too large after 1 ms).
Fairness ==
  \A r \in Reqs :
    /\ WF_vars(CoreAnalyze(r))
    /\ WF_vars(CoreResponseEnd(r) \/ CoreRequestError(r))
    /\ WF_vars(BackoffElapsed(r))

FairSpec == Init /\ [][CoreNext]_vars /\ Fairness

\* ------------------------------------------------- concurrent requests
\* Every request slot holds a request that has arrived: the handlers and
\* their chains interleave at each await.  The inputs are one accepted text,
\* and a response for each way a chain goes on: resolved, retried, rejected
\* with 'not found', rejected otherwise.  The primary model is one of the
\* alternatives, which the fallback of each request then skips.
ConcurrentTexts == {Text(<<Plain(1)>>)}
ConcurrentResponses ==
  {<<200, JsonData(Obj([candidates |-> Arr(<<Candidate(Text(<<Json(120, FullDoc)>>))>>)]))>>,
   <<429, JsonData(Obj([error |-> Obj([message |-> QuotaMessage, code |-> Undef])]))>>,
   <<404, JsonData(Obj([error |-> Obj([message |-> NotFoundMessage, code |-> Undef])]))>>}

ConcurrentInit ==
  /\ GEMINI_MODEL = alternativeModels[2]
  /\ pc = [r \in Reqs |-> "new"]
  /\ text = [r \in Reqs |-> Undef]
  /\ altIdx = [r \in Reqs |-> 0]
  /\ modelName = [r \in Reqs |-> ""]
  /\ retryCount = [r \in Reqs |-> 0]
  /\ sent = [r \in Reqs |-> 0]
  /\ backoffs = [r \in Reqs |-> 0]
  /\ calls = [r \in Reqs |-> <<>>]
  /\ lastRes = [r \in Reqs |-> NoRes]
  /\ timer = [r \in Reqs |-> Undef]
  /\ error = [r \in Reqs |-> NoError]
  /\ reply = [r \in Reqs |-> NoReply]
  /\ ShellInit /\ ~analyzeBtnDisabled

ConcurrentAnalyze(r) == \E t \in ConcurrentTexts : AnalyzeText(r, t)
ConcurrentResponseEnd(r) == \E res \in ConcurrentResponses : ResponseEndWith(r, res)
ConcurrentRequestError(r) == \E m \in CoreErrors : RequestErrorWith(r, m)

ConcurrentNext ==
  \E r \in Reqs :
    \/ ConcurrentAnalyze(r)
    \/ ConcurrentResponseEnd(r)
    \/ ConcurrentRequestError(r)
    \/ BackoffElapsed(r)

ConcurrentSpec == ConcurrentInit /\ [][ConcurrentNext]_vars

\* ----------------------------------------------------- the client shell
\* The values the user gives the text area: empty, white space only, a text,
\* a text of the greatest length with white space around it, a text too long.
InputValues ==
  {Text(<<>>), Text(<<Ws(3)>>), Text(<<Plain(1)>>),
   Text(<<Ws(1), Plain(MAX_CHARS), Ws(1)>>), Text(<<Plain(MAX_CHARS + 1)>>)}

\* What the fetch of an invocation ends with: displayResults has run to its
\* end (a 200 with success and an analysis it can render), or an error was
\* thrown into the catch: fetch or response.json() rejected, a status that is
\* not ok (line 97, with the error of the body or without), a body without
\* success or analysis (line 103).
FetchOutcomes ==
  {[kind |-> "displayed"]}
    \cup {[message |-> m, kind |-> "thrown"] :
            m \in {<<"Failed", "to", "fetch">>, AllModelsFailedMessage,
                   <<"Failed", "to", "analyze", "text">>,
                   <<"Invalid", "response", "from", "server">>}}

\* Lines 21-36: the input listener, the user having made the value v.
Input(v) ==
  /\ v # textInputValue
  /\ textInputValue' = v
  /\ analyzeBtnDisabled' = (TextLength(v.v) = 0 \/ TextLength(v.v) > MAX_CHARS)
  /\ UNCHANGED <<loadingSection, errorSection, resultSection, errorMessage, inFlight,
                 gateway>>

\* Lines 154-158.
showError(message) ==
  /\ errorMessage' = Words(message)
  /\ errorSection' = "shown"

\* Lines 63-83: analyzeText up to its fetch.
analyzeText ==
  LET t == trim(textInputValue.v)
  IN IF t = <<>>
     THEN /\ showError(<<"Please", "enter", "some", "text", "to", "analyze.">>)
          /\ UNCHANGED <<textInputValue, analyzeBtnDisabled, loadingSection,
                         resultSection, inFlight>>
     ELSE IF TextLength(t) > MAX_CHARS
     THEN /\ showError(<<"Text", "exceeds", "the", "maximum", "length", "of",
                         "10,000", "characters.">>)
          /\ UNCHANGED <<textInputValue, analyzeBtnDisabled, loadingSection,
                         resultSection, inFlight>>
     ELSE /\ inFlight < MaxInFlight
          /\ errorSection' = "hidden"
          /\ resultSection' = "hidden"
          /\ loadingSection' = "shown"
          /\ analyzeBtnDisabled' = TRUE
          /\ inFlight' = inFlight + 1
          /\ UNCHANGED <<textInputValue, errorMessage>>

\* Lines 39-46: the keydown listener, for Ctrl+Enter without Shift (any other
\* key does nothing here).
Keydown ==
  /\ ~analyzeBtnDisabled
  /\ analyzeText
  /\ UNCHANGED gateway

\* Line 49: the click listener of the button; a disabled button gets no click.
Click ==
  /\ ~analyzeBtnDisabled
  /\ analyzeText
  /\ UNCHANGED gateway

\* Lines 52-54.
DismissError ==
  /\ errorSection' = "hidden"
  /\ UNCHANGED <<textInputValue, analyzeBtnDisabled, loadingSection, resultSection,
                 errorMessage, inFlight, gateway>>

\* Lines 57-60.
ClearResult ==
  /\ resultSection' = "hidden"
  /\ UNCHANGED <<textInputValue, analyzeBtnDisabled, loadingSection, errorSection,
                 errorMessage, inFlight, gateway>>

\* Lines 85-112: the fetch of one suspended invocation has ended; the rest of
\* its try, the catch and the finally.
FetchSettled(outcome) ==
  /\ inFlight > 0
  /\ IF outcome.kind = "displayed"
     THEN resultSection' = "shown" /\ UNCHANGED <<errorSection, errorMessage>>
     ELSE showError(outcome.message) /\ UNCHANGED resultSection
  /\ loadingSection' = "hidden"
  /\ analyzeBtnDisabled' = FALSE
  /\ inFlight' = inFlight - 1
  /\ UNCHANGED <<textInputValue, gateway>>

\* The page alone: the gateway is at rest with its default configuration.
ShellSpecInit ==
  /\ GEMINI_MODEL = "gemma-3-27b-it"
  /\ pc = [r \in Reqs |-> "absent"]
  /\ text = [r \in Reqs |-> Undef]
  /\ altIdx = [r \in Reqs |-> 0]
  /\ modelName = [r \in Reqs |-> ""]
  /\ retryCount = [r \in Reqs |-> 0]
  /\ sent = [r \in Reqs |-> 0]
  /\ backoffs = [r \in Reqs |-> 0]
  /\ calls = [r \in Reqs |-> <<>>]
  /\ lastRes = [r \in Reqs |-> NoRes]
  /\ timer = [r \in Reqs |-> Undef]
  /\ error = [r \in Reqs |-> NoError]
  /\ reply = [r \in Reqs |-> NoReply]
  /\ ShellInit

ShellNext ==
  \/ \E v \in InputValues : Input(v)
  \/ Keydown
  \/ Click
  \/ DismissError
  \/ ClearResult
  \/ \E outcome \in FetchOutcomes : FetchSettled(outcome)

ShellSpec == ShellSpecInit /\ [][ShellNext]_vars

\* ------------------------------------------------------------- claims
\* What a step shows of the outbound request of r that ended in it: the
\* running call was awaiting its response and has retried, or has settled (the
\* request is answered, or the next chain has started).
Ended(r) ==
  /\ pc[r] = "await"
  /\ \/ pc'[r] # "await"
     \/ Len(calls'[r]) > Len(calls[r])

\* The step ends the outbound request of r with an HTTP 429 response.
Ended429(r) ==
  /\ Ended(r)
  /\ IF lastRes'[r].kind = "response" THEN lastRes'[r].statusCode = 429
     ELSE lastRes'[r].kind = "none" /\ error'[r].statusCode = 429

\* The step rejects the running chain of r, which issues no further request:
\* the request is answered, or another chain starts with its first request.
ChainFails(r) ==
  /\ calls'[r][Len(calls[r])].outcome = "rejected"
  /\ \/ pc'[r] = "done" /\ sent'[r] = sent[r] /\ reply'[r].status = 500
     \/ pc'[r] = "await" /\ Len(calls'[r]) = Len(calls[r]) + 1 /\ sent'[r] = 1

C2_Every429BacksOffThenRetries ==
  [][\A r \in Reqs :
       /\ (Ended429(r) /\ retryCount[r] < maxRetries) =>
            (pc'[r] = "backoff" /\ backoffs'[r] = backoffs[r] + 1 /\ sent'[r] = sent[r])
       /\ (retryCount'[r] = retryCount[r] + 1) =>
            (pc[r] = "backoff" /\ pc'[r] = "await" /\ sent'[r] = sent[r] + 1
             /\ backoffs'[r] = backoffs[r])]_vars

\* What C3 states of a 429 payload: the retryDelay of the detail list when one
\* is present and parses as a number of seconds, 30 seconds otherwise.
StatedRetryDelay(response) ==
  LET err == IF Nullish(response) THEN Undef ELSE Get(response, "error")
      details == IF Nullish(err) THEN Undef ELSE Get(err, "details")
      list == IF details.t = "arr" THEN details.v ELSE <<>>
      given == {i \in 1..Len(list) : Truthy(Get(list[i], "retryDelay"))}
      first == CHOOSE i \in given : \A j \in given : i <= j
  IN IF given = {} \/ (\E i \in 1..Len(list) : i < first /\ Nullish(list[i]))
     THEN Num(DefaultRetryDelay)
     ELSE IF parseInt(Get(list[first], "retryDelay")) = NaN THEN Num(DefaultRetryDelay)
     ELSE parseInt(Get(list[first], "retryDelay"))

\* C3 (as stated): the backoff of a 429 lasts the retryDelay of the payload
\* when it has one, and 30 seconds when it has none or one that cannot be
\* parsed as a number of seconds.
C3_BackoffIsRetryDelayOr30 ==
  \A r \in Reqs :
    pc[r] = "backoff" => timer[r] = StatedRetryDelay(lastRes[r].data.val)

\* The alternatives in the order they are to be tried: the fixed list without
\* the primary model.
ExpectedAlternatives == SelectSeq(alternativeModels, LAMBDA m : m # GEMINI_MODEL)

\* The step rejects the primary call of r.
PrimaryFails(r) ==
  /\ Ended(r) /\ altIdx[r] = 0
  /\ calls'[r][1].outcome = "rejected"

\* C4: after a 'model not found' failure of the primary call the alternatives
\* are tried one at a time in the fixed order, the primary model skipped:
\* the chains started are the primary one followed by a prefix of that order,
\* each started only when all before it have failed, and none after a success.
C4_FallbackInOrderUntilSuccess ==
  /\ [](\A r \in Reqs :
          LET n == Len(calls[r])
          IN n > 0 =>
               /\ calls[r][1].model = GEMINI_MODEL
               /\ n - 1 <= Len(ExpectedAlternatives)
               /\ \A i \in 2..n : calls[r][i].model = ExpectedAlternatives[i - 1]
               /\ \A i \in 1..(n - 1) : calls[r][i].outcome = "rejected"
               /\ (pc[r] \in {"await", "backoff"}) = (calls[r][n].outcome = "pending")
               /\ (pc[r] = "done") = (calls[r][n].outcome \in {"resolved", "rejected"})
               /\ (pc[r] \in {"await", "backoff"} => modelName[r] = calls[r][n].model))
  /\ [][\A r \in Reqs :
          /\ (PrimaryFails(r) /\ IncludesNotFound(error'[r].message)) =>
               (pc'[r] = "await" /\ Len(calls'[r]) = 2 /\ retryCount'[r] = 0)
          /\ (Ended(r) /\ altIdx[r] > 0 /\ calls'[r][Len(calls[r])].outcome = "rejected"
              /\ Len(calls[r]) - 1 < Len(ExpectedAlternatives)) =>
               (pc'[r] = "await" /\ Len(calls'[r]) = Len(calls[r]) + 1)
          /\ (Len(calls'[r]) > Len(calls[r]) /\ Len(calls[r]) > 0) =>
               calls'[r][Len(calls[r])].outcome = "rejected"]_vars

\* C4 witness: the primary model is one of the alternatives, was not found,
\* and the last alternative succeeded after the one before it failed.
C4_Witness ==
  \E r \in Reqs :
    /\ GEMINI_MODEL = alternativeModels[2]
    /\ pc[r] = "done" /\ reply[r].status = 200
    /\ Len(calls[r]) = 3
    /\ calls[r][2].model = alternativeModels[1]
    /\ calls[r][3] = [model |-> alternativeModels[3], outcome |-> "resolved"]

\* C5: a failure of the primary call whose message does not say 'not found'
\* (retries exhausted, another remote error, an invalid response shape, a
\* transport error) ends the request at once: no alternative model is tried
\* and the answer is a 500 that carries the failure's message.
C5_OtherFailurePropagates ==
  [][\A r \in Reqs :
       (PrimaryFails(r) /\ ~IncludesNotFound(error'[r].message)) =>
         /\ pc'[r] = "done"
         /\ Len(calls'[r]) = 1
         /\ reply'[r] = [error |-> Words(error'[r].message), status |-> 500,
                         success |-> FALSE]
         /\ error'[r].message # <<>>
         /\ sent'[r] = sent[r]]_vars

\* C5 witness: the primary call ran out of retries on 429 and the request was
\* answered 500 with the remote message, no alternative tried.
C5_Witness ==
  \E r \in Reqs :
    /\ pc[r] = "done" /\ Len(calls[r]) = 1 /\ sent[r] = maxRetries + 1
    /\ error[r].site = "L184" /\ error[r].statusCode = 429
    /\ reply[r] = [error |-> QuotaMessage, status |-> 500, success |-> FALSE]

\* C6: when the primary call failed with 'model not found' and every
\* alternative tried failed too, the answer is 500 {success: false} with the
\* "All models failed" message, never a 200.
C6_AllModelsFailed ==
  \A r \in Reqs :
    (/\ pc[r] = "done"
     /\ Len(calls[r]) > 1
     /\ \A i \in 1..Len(calls[r]) : calls[r][i].outcome = "rejected") =>
      /\ reply[r] = [error |-> Words(AllModelsFailedMessage), status |-> 500,
                     success |-> FALSE]
      /\ Len(calls[r]) = 1 + Len(ExpectedAlternatives)

\* C6 witness: all four chains of a request were rejected, the last for a
\* reason other than 'not found'.
C6_Witness ==
  \E r \in Reqs :
    /\ pc[r] = "done" /\ Len(calls[r]) = Len(alternativeModels) + 1
    /\ calls[r][Len(calls[r])].outcome = "rejected"
    /\ ~IncludesNotFound(error[r].message)
    /\ reply[r].status = 500

\* The request r has been received: its text has been read.
Received(r) == pc[r] \notin {"absent", "new"}

\* A text made of white space only (the empty text included).
BlankText(t) == t.t = "str" /\ \A i \in 1..Len(t.v) : t.v[i].k = "ws"

\* C7: a text that is empty, white space only or longer than 10,000
\* characters is answered 400 {success: false}, and no outbound request is
\* issued for it.
C7_InvalidTextRejected ==
  \A r \in Reqs :
    (/\ Received(r)
     /\ text[r].t = "str"
     /\ (BlankText(text[r]) \/ TextLength(text[r].v) > MaxTextLength)) =>
      /\ pc[r] = "done"
      /\ reply[r].status = 400 /\ reply[r].success = FALSE
      /\ calls[r] = <<>> /\ sent[r] = 0 /\ lastRes[r] = NoRes

\* C7 witness: a text over the limit that fits once trimmed was answered 400.
C7_Witness ==
  \E r \in Reqs :
    /\ pc[r] = "done" /\ reply[r].status = 400 /\ text[r].t = "str"
    /\ TextLength(text[r].v) > MaxTextLength
    /\ TextLength(trim(text[r].v)) <= MaxTextLength
    /\ ~BlankText(text[r])

\* C8 (as stated): every text whose length is in 1..10000 passes validation:
\* it is never answered 400 and goes on to the remote call.
C8_LengthInRangePasses ==
  \A r \in Reqs :
    (/\ Received(r)
     /\ text[r].t = "str"
     /\ TextLength(text[r].v) \in 1..MaxTextLength) =>
      /\ reply[r].status # 400
      /\ calls[r] # <<>> /\ sent[r] >= 1

\* C8 (amended): every text whose length is in 1..10000 and that is not white
\* space only passes validation: it is never answered 400 and goes on to the
\* remote call, which gets the primary model.
C8_NonBlankLengthInRangePasses ==
  \A r \in Reqs :
    (/\ Received(r)
     /\ text[r].t = "str"
     /\ TextLength(text[r].v) \in 1..MaxTextLength
     /\ ~BlankText(text[r])) =>
      /\ reply[r].status # 400
      /\ calls[r] # <<>> /\ sent[r] >= 1
      /\ calls[r][1].model = GEMINI_MODEL

\* C8 witness: a text of exactly 10,000 characters, white space at its start,
\* is awaiting the response of the primary call.
C8_Witness ==
  \E r \in Reqs :
    /\ pc[r] = "await" /\ Len(calls[r]) = 1 /\ sent[r] = 1
    /\ text[r].t = "str" /\ TextLength(text[r].v) = MaxTextLength
    /\ text[r].v[1].k = "ws"

\* The candidate text of the remote response the answer of r was made from.
RepliedText(r) ==
  Get(First(Get(Get(First(Get(lastRes[r].data.val, "candidates")), "content"), "parts")),
      "text")

\* A field that is there and not empty.
Filled(x) == ~Nullish(x) /\ x.t # "nan" /\ Truthy(x)

\* C9: the analysis of every 200 answer has its four fields: sentiment, tone
\* and summary not empty, themes a sequence.
C9_AnalysisFullyPopulated ==
  \A r \in Reqs :
    reply[r].status = 200 =>
      /\ reply[r].success = TRUE
      /\ reply[r].analysis.t = "obj"
      /\ DOMAIN reply[r].analysis.v = {"sentiment", "themes", "tone", "summary"}
      /\ Filled(reply[r].analysis.v.sentiment)
      /\ reply[r].analysis.v.themes.t = "arr"
      /\ Filled(reply[r].analysis.v.tone)
      /\ Filled(reply[r].analysis.v.summary)

\* C9 witness: a 200 answer made from a remote document with none of the
\* four fields.
C9_Witness ==
  \E r \in Reqs :
    /\ reply[r].status = 200
    /\ RepliedText(r) = Text(<<Json(DocChars(BareDoc), BareDoc)>>)

\* The candidate text is JSON as it stands, an object with the four fields.
HasFourFields(x) ==
  /\ x.t = "str" /\ JSONparse(x.v).ok
  /\ JSONparse(x.v).val.t = "obj"
  /\ \A f \in {"sentiment", "themes", "tone", "summary"} :
       Get(JSONparse(x.v).val, f) # Undef

SameFields(analysis, doc) ==
  \A f \in {"sentiment", "themes", "tone", "summary"} : Get(analysis, f) = Get(doc, f)

\* C10 (as stated): a 200 response whose candidate text is valid JSON with
\* the four fields gives an analysis whose four fields are those of the JSON.
C10_RoundTrip ==
  \A r \in Reqs :
    (reply[r].status = 200 /\ HasFourFields(RepliedText(r))) =>
      SameFields(reply[r].analysis, JSONparse(RepliedText(r).v).val)

\* C10 (amended): a 200 response whose candidate text is valid JSON with the
\* four fields, of which sentiment, tone and summary are not empty and
\* themes is an array, gives an analysis whose four fields are those of the
\* JSON.
C10_RoundTripOfFilledFields ==
  \A r \in Reqs :
    (/\ reply[r].status = 200
     /\ HasFourFields(RepliedText(r))
     /\ LET doc == JSONparse(RepliedText(r).v).val
        IN /\ Filled(Get(doc, "sentiment")) /\ Filled(Get(doc, "tone"))
           /\ Filled(Get(doc, "summary")) /\ Get(doc, "themes").t = "arr") =>
      /\ SameFields(reply[r].analysis, JSONparse(RepliedText(r).v).val)
      /\ DOMAIN reply[r].analysis.v = {"sentiment", "themes", "tone", "summary"}

\* C10 witness: the 200 answer to the document of the spec's scenario.
C10_Witness ==
  \E r \in Reqs :
    /\ reply[r].status = 200
    /\ RepliedText(r) = Text(<<Json(DocChars(FullDoc), FullDoc)>>)
    /\ reply[r].analysis = FullDoc

\* What JSON.parse makes of the candidate text the answer of r was made from,
\* once trimmed and rid of its fence.
ParsedReply(r) == JSONparse(jsonText(RepliedText(r).v))

\* The object the spec's words give for a parsed document: the default where
\* a field is absent (themes: where it is not an array), the field otherwise.
StatedNormalized(doc, raw) ==
  LET field(f, default) == IF Get(doc, f) = Undef THEN default ELSE Get(doc, f)
  IN Obj([sentiment |-> field("sentiment", Words(<<"neutral">>)),
          themes |-> IF Get(doc, "themes").t = "arr" THEN Get(doc, "themes")
                     ELSE Arr(<<>>),
          tone |-> field("tone", Words(<<"Not", "specified">>)),
          summary |-> field("summary", Text(substring(raw, SummaryChars)))])

\* C11 (as stated): a 200 response whose candidate text parses as JSON gives
\* the analysis of the document with the defaults in the place of the absent
\* fields (themes: of one that is not an array), the fields that are present
\* left as given.
C11_NormalizedFieldByField ==
  \A r \in Reqs :
    (reply[r].status = 200 /\ ParsedReply(r).ok) =>
      reply[r].analysis = StatedNormalized(ParsedReply(r).val, RepliedText(r).v)

\* The same with the defaults in the place of every field that is absent or
\* falsy (null, the empty string, 0, false).
TruthyNormalized(doc, raw) ==
  LET field(f, default) == IF Truthy(Get(doc, f)) THEN Get(doc, f) ELSE default
  IN Obj([sentiment |-> field("sentiment", Words(<<"neutral">>)),
          themes |-> IF Get(doc, "themes").t = "arr" THEN Get(doc, "themes")
                     ELSE Arr(<<>>),
          tone |-> field("tone", Words(<<"Not", "specified">>)),
          summary |-> field("summary", Text(substring(raw, SummaryChars)))])

\* C11 (amended): a 200 response whose candidate text (trimmed, its fence
\* stripped) parses as a JSON document other than null gives sentiment
\* "neutral", tone "Not specified" and summary the first 200 characters of the
\* raw candidate text where the field is absent or falsy, themes the empty
\* sequence where it is not an array, and the fields that are present and
\* truthy (themes: an array) as given; the document null gives the fallback
\* shape (tone "mixed", the first 500 characters).
C11_NormalizedTruthyFieldByField ==
  \A r \in Reqs :
    (reply[r].status = 200 /\ ParsedReply(r).ok) =>
      IF ParsedReply(r).val = Null
      THEN reply[r].analysis =
             Obj([sentiment |-> Words(<<"neutral">>), themes |-> Arr(<<>>),
                  tone |-> Words(<<"mixed">>),
                  summary |-> Text(substring(RepliedText(r).v, FallbackSummaryChars))])
      ELSE reply[r].analysis = TruthyNormalized(ParsedReply(r).val, RepliedText(r).v)

\* C11 witness: a 200 answer made from a fenced document of 300 characters
\* without any of the four fields, white space before the fence: the summary
\* is cut inside the document.
C11_Witness ==
  \E r \in Reqs :
    /\ reply[r].status = 200
    /\ RepliedText(r) = Text(<<Ws(2), Fence(TRUE, TRUE), Json(300, BareDoc), Ws(1)>>)
    /\ reply[r].analysis.v.tone = Words(<<"Not", "specified">>)
    /\ TextLength(reply[r].analysis.v.summary.v) = SummaryChars

\* The request r was answered from a 200 response whose candidate text is a
\* string that is not empty.
AnsweredFromText(r) ==
  /\ pc[r] = "done"
  /\ lastRes[r].kind = "response" /\ lastRes[r].statusCode = 200 /\ lastRes[r].data.json
  /\ RepliedText(r).t = "str" /\ Truthy(RepliedText(r))

\* C12: a 200 response whose candidate text is not empty and, trimmed and
\* rid of its fence, is not JSON does not fail the call: the call resolves
\* with sentiment "neutral", no themes, tone "mixed" and the first 500
\* characters of the raw text as summary, and the request is answered 200
\* with that analysis.
C12_UnparseableTextFallsBack ==
  \A r \in Reqs :
    (AnsweredFromText(r) /\ ~ParsedReply(r).ok) =>
      /\ calls[r][Len(calls[r])].outcome = "resolved"
      /\ reply[r] =
           [analysis |->
              Obj([sentiment |-> Words(<<"neutral">>), themes |-> Arr(<<>>),
                   tone |-> Words(<<"mixed">>),
                   summary |-> Text(substring(RepliedText(r).v, FallbackSummaryChars))]),
            status |-> 200, success |-> TRUE]

\* C12 witness: a 200 answer made from a text of 600 characters that are not
\* JSON; the summary has 500 of them.
C12_Witness ==
  \E r \in Reqs :
    /\ AnsweredFromText(r) /\ ~ParsedReply(r).ok
    /\ RepliedText(r) = Text(<<Plain(600)>>)
    /\ reply[r].status = 200
    /\ TextLength(reply[r].analysis.v.summary.v) = FallbackSummaryChars

\* The text of r fails validation: it is not a string, is white space only
\* (or empty), or is longer than the limit.
FailsValidation(r) ==
  text[r].t # "str" \/ BlankText(text[r]) \/ TextLength(text[r].v) > MaxTextLength

\* Some chain of r has resolved.
SomeCallSucceeded(r) ==
  \E i \in 1..Len(calls[r]) : calls[r][i].outcome = "resolved"

\* C13: every request gets exactly one response: none before it is answered,
\* one when it is, and that one is never replaced.  The response is 400
\* {success: false} exactly for a validation failure, 200 {success: true,
\* analysis} exactly when a model call succeeded, and 500 {success: false,
\* error} with a message exactly when the calls made all failed.
C13_OneResponseByOutcome ==
  /\ [](\A r \in Reqs :
          /\ (pc[r] = "done") = (reply[r] # NoReply)
          /\ pc[r] = "done" =>
               /\ reply[r].status \in {200, 400, 500}
               /\ (reply[r].status = 400) = FailsValidation(r)
               /\ reply[r].status = 400 => (reply[r].success = FALSE /\ calls[r] = <<>>)
               /\ (reply[r].status = 200) = SomeCallSucceeded(r)
               /\ reply[r].status = 200 =>
                    (reply[r].success = TRUE /\ DOMAIN reply[r] = {"status", "success", "analysis"})
               /\ (reply[r].status = 500) =
                    (calls[r] # <<>> /\ \A i \in 1..Len(calls[r]) : calls[r][i].outcome = "rejected")
               /\ reply[r].status = 500 =>
                    (reply[r].success = FALSE /\ reply[r].error.t = "str" /\ Truthy(reply[r].error)))
  /\ [][\A r \in Reqs :
          /\ reply'[r] # reply[r] => (reply[r] = NoReply /\ pc[r] # "done" /\ pc'[r] = "done")
          /\ pc[r] = "done" => pc'[r] = "done"]_vars

\* C13 witness: a request answered 500 for a transport error of its primary
\* call.
C13_Witness ==
  \E r \in Reqs :
    /\ pc[r] = "done" /\ reply[r].status = 500
    /\ error[r].site = "L249" /\ lastRes[r].kind = "error"
    /\ Len(calls[r]) = 1

\* The message C14 states for a non-200 response: the message of the
\* payload's error when it has one, else its code when it has one, else the
\* generic message with the status.
StatedRemoteMessage(statusCode, data) ==
  LET err == Get(data.val, "error")
  IN IF Truthy(Get(err, "message")) THEN ToWords(Get(err, "message"))
     ELSE IF Truthy(Get(err, "code")) THEN ToWords(Get(err, "code"))
     ELSE StatusMessage(statusCode)

\* The request r was answered from a response that is neither a 200 nor a
\* 429 received with retryCount < maxRetries.
AnsweredFromNon200(r) ==
  /\ pc[r] = "done"
  /\ lastRes[r].kind = "response" /\ lastRes[r].statusCode # 200
  /\ ~(lastRes[r].statusCode = 429 /\ retryCount[r] < maxRetries)

\* C14 (as stated): a non-200 response other than a retryable 429 fails the
\* call without a retry, whatever its body, and the failure carries the
\* remote message or code when the payload has one, the generic message with
\* the status otherwise.
C14_Non200FailsWithRemoteOrStatusMessage ==
  \A r \in Reqs :
    AnsweredFromNon200(r) =>
      /\ calls[r][Len(calls[r])].outcome = "rejected"
      /\ sent[r] = retryCount[r] + 1
      /\ error[r].statusCode = lastRes[r].statusCode
      /\ error[r].message = StatedRemoteMessage(lastRes[r].statusCode, lastRes[r].data)

\* The alternatives that come after the model the running call of r tries.
AltsLeft(r) ==
  Cardinality({j \in (altIdx[r] + 1)..Len(alternativeModels) :
                 alternativeModels[j] # GEMINI_MODEL})

\* A bound on the steps a request has left before it is answered: the chain
\* in progress has at most maxRetries - retryCount backoffs, each followed by
\* one more outbound request, and every alternative left a whole chain.
StepsLeft(r) ==
  CASE pc[r] = "new" -> 1 + (Len(alternativeModels) + 1) * (2 * maxRetries + 1)
    [] pc[r] = "await" ->
         2 * (maxRetries - retryCount[r]) + 1 + AltsLeft(r) * (2 * maxRetries + 1)
    [] pc[r] = "backoff" ->
         2 * (maxRetries - retryCount[r]) + AltsLeft(r) * (2 * maxRetries + 1)
    [] OTHER -> 0

\* C15: when every outbound request in flight ends (response or transport
\* error) and every backoff elapses, each chain settles, once and for all,
\* resolved with an analysis or rejected, and the request it belongs to is
\* then answered; every step of a request brings the answer nearer.
C15_ChainSettlesRequestAnswered ==
  /\ \A r \in Reqs : (pc[r] \in {"await", "backoff"}) ~> (pc[r] = "done")
  /\ \A r \in Reqs : \A n \in 1..(Len(alternativeModels) + 1) :
       (Len(calls[r]) = n) ~> (Len(calls[r]) >= n /\ calls[r][n].outcome # "pending")
  /\ [](\A r \in Reqs :
          /\ StepsLeft(r) >= 0
          /\ pc[r] = "done" =>
               /\ reply[r] # NoReply
               /\ \A i \in 1..Len(calls[r]) : calls[r][i].outcome \in {"resolved", "rejected"})
  /\ [][\A r \in Reqs :
          /\ pc'[r] # pc[r] \/ sent'[r] # sent[r] \/ calls'[r] # calls[r] =>
               StepsLeft(r)' < StepsLeft(r)
          /\ \A i \in 1..Len(calls[r]) :
               calls[r][i].outcome # "pending" =>
                 (Len(calls'[r]) >= i /\ calls'[r][i] = calls[r][i])]_vars

\* C15 witness: a request answered after all its chains ran to the end of
\* their retries: the primary model was not found, and each alternative was
\* refused with 429 four times.
C15_Witness ==
  \E r \in Reqs :
    /\ pc[r] = "done" /\ reply[r] # NoReply
    /\ Len(calls[r]) = Len(alternativeModels) + 1
    /\ retryCount[r] = maxRetries /\ backoffs[r] = maxRetries
    /\ error[r].statusCode = 429

\* C16 (as stated): a request runs one chain, and its backoffs are at most
\* maxRetries in all (here: those of the chain in progress alone, which are
\* no more than all).
C16_OneChainMaxRetriesBackoffs ==
  \A r \in Reqs : Len(calls[r]) <= 1 /\ backoffs[r] <= maxRetries

\* C16 (amended): a request runs its chains one after another: the primary
\* one and, only when that one failed with 'not found', one for each
\* alternative model other than the primary until one succeeds, so at most
\* 1 + 3 chains; each chain performs at most maxRetries backoffs before it
\* settles, and a request whose text was refused runs none.
C16_ChainsAndBackoffsBounded ==
  /\ [](\A r \in Reqs :
          /\ Len(calls[r]) <= 1 + Len(ExpectedAlternatives)
          /\ Len(calls[r]) <= 1 + Len(alternativeModels)
          /\ backoffs[r] <= maxRetries
          /\ backoffs[r] = (IF pc[r] = "backoff" THEN retryCount[r] + 1 ELSE retryCount[r])
          /\ reply[r].status = 400 => (calls[r] = <<>> /\ backoffs[r] = 0))
  /\ [][\A r \in Reqs :
          /\ (Len(calls'[r]) > Len(calls[r]) /\ Len(calls[r]) = 1) =>
               IncludesNotFound(error'[r].message)
          /\ Len(calls'[r]) > Len(calls[r]) =>
               (Len(calls'[r]) = Len(calls[r]) + 1 /\ backoffs'[r] = 0 /\ pc'[r] = "await")
          /\ backoffs'[r] > backoffs[r] =>
               (backoffs'[r] = backoffs[r] + 1 /\ pc[r] = "await" /\ pc'[r] = "backoff"
                /\ lastRes'[r].statusCode = 429)]_vars

\* C16 witness: a request answered after four chains, the last of which
\* backed off maxRetries times.
C16_Witness ==
  \E r \in Reqs :
    /\ pc[r] = "done"
    /\ Len(calls[r]) = 1 + Len(alternativeModels) /\ Len(calls[r]) > 1
    /\ backoffs[r] = maxRetries

\* All the state of the request r: its position, its retry counter and the
\* other counters of its chain, its place in the list of alternatives and the
\* model it tries, its chains and their outcomes, its answer.
ReqState(r) ==
  <<pc[r], text[r], altIdx[r], modelName[r], retryCount[r], sent[r], backoffs[r],
    calls[r], lastRes[r], timer[r], error[r], reply[r]>>

\* C17: with several requests in flight, a step of one request (its response
\* ends, with a 429 or a failure or anything else, its transport fails, its
\* backoff elapses, its handler starts) leaves the attempt count, the model
\* tried, the chains and the outcome of every other request as they were, and
\* the configuration too; a request counts its retries from 0 in each chain
\* whatever the others do.
C17_RequestsIndependent ==
  /\ [][\A r \in Reqs : \A q \in Reqs \ {r} :
          ReqState(r)' # ReqState(r) => ReqState(q)' = ReqState(q)]_vars
  /\ [][GEMINI_MODEL' = GEMINI_MODEL]_vars
  /\ [](\A r \in Reqs :
          pc[r] \in {"await", "backoff"} =>
            /\ sent[r] = retryCount[r] + 1
            /\ backoffs[r] = (IF pc[r] = "backoff" THEN retryCount[r] + 1 ELSE retryCount[r])
            /\ modelName[r] = (IF altIdx[r] = 0 THEN GEMINI_MODEL
                               ELSE alternativeModels[altIdx[r]]))

\* C17 witness: two requests in flight at once, one in its third backoff on
\* the primary model, the other on its first attempt with the last
\* alternative.
C17_Witness ==
  \E r \in Reqs : \E q \in Reqs \ {r} :
    /\ pc[r] = "backoff" /\ retryCount[r] = maxRetries - 1 /\ altIdx[r] = 0
    /\ lastRes[r].statusCode = 429
    /\ pc[q] = "await" /\ retryCount[q] = 0 /\ altIdx[q] = Len(alternativeModels)

\* C18 (as stated): the button is disabled for as long as an invocation of
\* analyzeText is suspended at its fetch, and there is never more than one.
C18_ButtonDisabledWhileInFlight ==
  /\ inFlight > 0 => analyzeBtnDisabled
  /\ inFlight <= 1

\* C19 (as stated): the error section and the result section are never shown
\* together, and with no analysis in flight the loading section is hidden.
C19_SectionsExclusive ==
  /\ ~(errorSection = "shown" /\ resultSection = "shown")
  /\ inFlight = 0 => loadingSection = "hidden"

\* A document in exactly the structure the prompt asks for (lines 115-130):
\* mood with label and confidence, themes, tone, summary, disclaimer.
PromptShaped(doc) ==
  /\ doc.t = "obj"
  /\ DOMAIN doc.v = {"mood", "themes", "tone", "summary", "disclaimer"}
  /\ doc.v.mood.t = "obj"
  /\ DOMAIN doc.v.mood.v = {"label", "confidence"}

\* C20 (as stated): when the candidate text is JSON in the structure the
\* prompt asks for, the sentiment of the analysis is that of the reply's mood
\* (the mood itself or its label), not the default "neutral".
C20_SentimentFromMood ==
  \A r \in Reqs :
    (/\ reply[r].status = 200
     /\ ParsedReply(r).ok
     /\ PromptShaped(ParsedReply(r).val)) =>
      /\ reply[r].analysis.v.sentiment # Words(<<"neutral">>)
      /\ \/ reply[r].analysis.v.sentiment = ParsedReply(r).val.v.mood
         \/ reply[r].analysis.v.sentiment = ParsedReply(r).val.v.mood.v.label
====
